---- MODULE Spec2Model ----
(***************************************************************************)
(* BackToMonitorExtension (src/extension.js): the tracker that remembers   *)
(* window states per output when an output is disconnected and restores    *)
(* them when the monitor is loaded again.                                  *)
(*                                                                         *)
(* The handlers run to completion one after the other (single-threaded     *)
(* event loop), so every handler is one action.  windowSaver, callSafely   *)
(* and the ScreenWatcher live outside extension.js: their answers are      *)
(* inputs of the events.                                                   *)
(***************************************************************************)
EXTENDS Integers, FiniteSets, Sequences, TLC

\* ------------------------------------------------------------------ bounds
MaxTime == 1
MaxCoord == 1

Windows == {"w1", "w2"}
Outputs == {"HDMI-1", "DP-1"}

Coord == 0 .. MaxCoord

\* the monitorRect of the events in the main specifications
Rects == {[x |-> MaxCoord, y |-> 0, width |-> 2, height |-> 2]}
\* what windowSaver.save can return in the main specification
WindowStates == {[x |-> 2 * MaxCoord, y |-> MaxCoord]}

\* the geometry of the specification of the coordinate transformation: rects of
\* origin (c, MaxCoord - c), every window position
CoordRects == {[x |-> c, y |-> MaxCoord - c, width |-> 2, height |-> 2] : c \in Coord}
CoordWindowStates == [x : Coord, y : Coord]

NoRect == [x |-> 0, y |-> 0, width |-> 0, height |-> 0]
NoState == [x |-> 0, y |-> 0]

\* ------------------------------------------------------------------- state
VARIABLES
    windowsSavedStates,         \* this._windowsSavedStates: window -> (output -> entry)
    monitorDisconnectedWindows, \* this._monitorDisconnectedWindows: output -> set of windows
    settings,                   \* this._settings
    listedWindows,              \* global.display.list_windows(0)
    clock,                      \* the last value Date.now() returned
    lastEvent,                  \* the event handled last
    calls,                      \* the calls the last handler made, with their outcomes
    phase,                      \* per output: where it is in disconnect / connect / unload
    firstCapture,               \* per window and output: the first capture not yet resolved
    captureInfo                 \* per pending entry: the state save returned and the rect

vars == <<windowsSavedStates, monitorDisconnectedWindows, settings, listedWindows,
          clock, lastEvent, calls, phase, firstCapture, captureInfo>>

\* ------------------------------------------------------------ Map helpers
Has(map, key) == key \in DOMAIN map

MapSet(map, key, value) ==
    [k \in DOMAIN map \cup {key} |-> IF k = key THEN value ELSE map[k]]

MapDelete(map, key) == [k \in DOMAIN map \ {key} |-> map[k]]

EmptyMap == [k \in {} |-> 0]

\* ------------------------------------------------- windowSaver, callSafely
\* What the host answers about one window during one event, asked or not: a
\* window outside the rect is asked nothing else, a window that is not movable, or
\* any window while rememberState is off, can have a state that save would
\* return.
HostAnswers(states) ==
    {a \in [inside : BOOLEAN, movable : BOOLEAN, readable : BOOLEAN, state : states \cup {NoState}] :
        /\ ~a.inside => ~a.movable /\ ~a.readable
        /\ a.readable <=> a.state \in states
        /\ ~a.readable => a.state = NoState}

isInside(answer, monitorRect) == answer.inside

allowsMove(answer) == answer.movable

\* save returns the window state or throws
save(answer) == [threw |-> ~answer.readable, value |-> answer.state]

Undefined == [defined |-> FALSE, value |-> NoState]

\* callSafely returns the function's result, or undefined when it threw
callSafely(result) ==
    IF result.threw THEN Undefined ELSE [defined |-> TRUE, value |-> result.value]

\* The calls of one handler: the windows isInside answered true for, the windows
\* allowsMove was asked about and answered true for, the windows save was called
\* on and those it threw for, the restore calls, what can_minimize answered
\* for each window it was asked about, the minimize calls, the entries deleted
\* besides the restored one (forget) and the outputs whose stranded set lost the
\* removed window (unstrand).
NoCalls ==
    [isInside |-> {}, allowsMove |-> {}, save |-> {}, saveThrew |-> {}, restore |-> {},
     canMinimize |-> {}, minimize |-> {}, forget |-> {}, unstrand |-> {}]

\* monitorRect: the rect of the event, for the handlers that read it
NoEvent == [type |-> "enable", outputName |-> "-", monitorRect |-> NoRect, metaWindow |-> "-"]

Event(type, outputName, monitorRect) ==
    [type |-> type, outputName |-> outputName, monitorRect |-> monitorRect, metaWindow |-> "-"]

\* -------------------------------------------------------------------- Init
InitWith(windows) ==
    /\ windowsSavedStates = EmptyMap
    /\ monitorDisconnectedWindows = EmptyMap
    /\ settings \in [rememberState : BOOLEAN, minimize : BOOLEAN]
    /\ listedWindows = windows
    /\ clock = 0
    /\ lastEvent = NoEvent
    /\ calls = NoCalls
    /\ phase = [o \in Outputs |-> "idle"]
    /\ firstCapture = [w \in Windows |-> EmptyMap]
    /\ captureInfo = [w \in Windows |-> EmptyMap]

\* ------------------------------------------------------------------ ghosts
\* captureInfo follows the pending entries: an entry that stays keeps its record,
\* a new entry gets the state save returned for it and the rect of the event.
CaptureInfoAfter(saved, host, monitorRect) ==
    [w \in Windows |->
        IF Has(saved, w)
        THEN [o \in DOMAIN saved[w] |->
                IF Has(captureInfo[w], o) THEN captureInfo[w][o]
                ELSE [state |-> host[w].state, monitorRect |-> monitorRect]]
        ELSE EmptyMap]

\* --------------------------------------------------- _onOutputDisconnected
\* Transform x and y to relative positions
ToRelative(windowState, monitorRect) ==
    [x |-> windowState.x - monitorRect.x, y |-> windowState.y - monitorRect.y]

\* the new state set over a pending one
RecordStateOverwrite(saved, metaWindow, outputName, entry) ==
    LET savedStates == IF Has(saved, metaWindow) THEN saved[metaWindow] ELSE EmptyMap
    IN  MapSet(saved, metaWindow, MapSet(savedStates, outputName, entry))

\* get-or-create the window's map, then keep a pending state of this output
\* or set the new one
RecordState(saved, metaWindow, outputName, entry) ==
    LET savedStates == IF Has(saved, metaWindow) THEN saved[metaWindow] ELSE EmptyMap
    IN  IF Has(savedStates, outputName)
        THEN MapSet(saved, metaWindow, savedStates)
        ELSE MapSet(saved, metaWindow, MapSet(savedStates, outputName, entry))

\* the window's map created before the result of save is looked at
DisconnectWindowEager(acc, metaWindow, outputName, monitorRect, time, answer) ==
    IF ~isInside(answer, monitorRect)
    THEN acc
    ELSE LET windowState ==
                 IF settings.rememberState /\ allowsMove(answer)
                 THEN callSafely(save(answer))
                 ELSE Undefined
             entry == [windowState |-> ToRelative(windowState.value, monitorRect),
                       time |-> time]
             created == IF Has(acc.savedStates, metaWindow)
                        THEN acc.savedStates
                        ELSE MapSet(acc.savedStates, metaWindow, EmptyMap)
         IN  [savedStates |->
                 IF windowState.defined
                 THEN RecordState(acc.savedStates, metaWindow, outputName, entry)
                 ELSE created,
              disconnectedWindows |-> acc.disconnectedWindows \cup {metaWindow}]

\* the window stranded only when its state was saved
DisconnectWindowOnlySaved(acc, metaWindow, outputName, monitorRect, time, answer) ==
    IF ~isInside(answer, monitorRect)
    THEN acc
    ELSE LET windowState ==
                 IF settings.rememberState /\ allowsMove(answer)
                 THEN callSafely(save(answer))
                 ELSE Undefined
             entry == [windowState |-> ToRelative(windowState.value, monitorRect),
                       time |-> time]
         IN  IF windowState.defined
             THEN [savedStates |->
                       RecordState(acc.savedStates, metaWindow, outputName, entry),
                   disconnectedWindows |-> acc.disconnectedWindows \cup {metaWindow}]
             ELSE acc

\* save called on every window inside the rect, whatever rememberState and
\* allowsMove say
DisconnectWindowUngated(acc, metaWindow, outputName, monitorRect, time, answer) ==
    IF ~isInside(answer, monitorRect)
    THEN acc
    ELSE LET windowState == callSafely(save(answer))
             entry == [windowState |-> ToRelative(windowState.value, monitorRect),
                       time |-> time]
         IN  [savedStates |->
                 IF windowState.defined
                 THEN RecordState(acc.savedStates, metaWindow, outputName, entry)
                 ELSE acc.savedStates,
              disconnectedWindows |-> acc.disconnectedWindows \cup {metaWindow}]

\* one iteration of the loop over global.display.list_windows(0)
DisconnectWindow(acc, metaWindow, outputName, monitorRect, time, answer) ==
    IF ~isInside(answer, monitorRect)
    THEN acc
    ELSE LET windowState ==
                 IF settings.rememberState /\ allowsMove(answer)
                 THEN callSafely(save(answer))
                 ELSE Undefined
             entry == [windowState |-> ToRelative(windowState.value, monitorRect),
                       time |-> time]
         IN  [savedStates |->
                 IF windowState.defined
                 THEN RecordState(acc.savedStates, metaWindow, outputName, entry)
                 ELSE acc.savedStates,
              disconnectedWindows |-> acc.disconnectedWindows \cup {metaWindow}]

\* the loop left by the exception of a save that is not caught
RECURSIVE DisconnectLoopAbort(_, _, _, _, _, _)
DisconnectLoopAbort(todo, acc, outputName, monitorRect, time, host) ==
    IF todo = {}
    THEN acc
    ELSE LET metaWindow == CHOOSE w \in todo : TRUE
             answer == host[metaWindow]
         IN  IF /\ isInside(answer, monitorRect)
                /\ settings.rememberState
                /\ allowsMove(answer)
                /\ save(answer).threw
             THEN acc
             ELSE DisconnectLoopAbort(todo \ {metaWindow},
                                      DisconnectWindow(acc, metaWindow, outputName,
                                                       monitorRect, time, answer),
                                      outputName, monitorRect, time, host)

RECURSIVE DisconnectLoop(_, _, _, _, _, _)
DisconnectLoop(todo, acc, outputName, monitorRect, time, host) ==
    IF todo = {}
    THEN acc
    ELSE LET metaWindow == CHOOSE w \in todo : TRUE
         IN  DisconnectLoop(todo \ {metaWindow},
                            DisconnectWindow(acc, metaWindow, outputName, monitorRect,
                                             time, host[metaWindow]),
                            outputName, monitorRect, time, host)

\* a window stranded under the disconnected output taken out of the sets of the
\* other outputs
OutputDisconnectedMove(outputName, monitorRect, time, host) ==
    LET done == DisconnectLoop(listedWindows,
                               [savedStates |-> windowsSavedStates,
                                disconnectedWindows |-> {}],
                               outputName, monitorRect, time, host)
        inside == {w \in listedWindows : isInside(host[w], monitorRect)}
        asked == {w \in inside : settings.rememberState /\ allowsMove(host[w])}
        got == {w \in asked : ~save(host[w]).threw}
    IN  /\ time >= clock
        /\ clock' = time
        /\ windowsSavedStates' = done.savedStates
        /\ monitorDisconnectedWindows' =
               MapSet([o \in DOMAIN monitorDisconnectedWindows |->
                          monitorDisconnectedWindows[o] \ done.disconnectedWindows],
                      outputName, done.disconnectedWindows)
        /\ lastEvent' = Event("output-disconnected", outputName, monitorRect)
        /\ calls' = [NoCalls EXCEPT !.isInside = inside, !.allowsMove = asked,
                                    !.save = asked, !.saveThrew = asked \ got]
        /\ phase' = [phase EXCEPT ![outputName] = "disconnected"]
        /\ firstCapture' =
               [w \in Windows |->
                   IF w \in got /\ ~Has(firstCapture[w], outputName)
                   THEN MapSet(firstCapture[w], outputName,
                               [windowState |-> ToRelative(host[w].state, monitorRect),
                                time |-> time])
                   ELSE firstCapture[w]]
        /\ captureInfo' = CaptureInfoAfter(done.savedStates, host, monitorRect)
        /\ UNCHANGED <<settings, listedWindows>>

OutputDisconnected(outputName, monitorRect, time, host) ==
    LET done == DisconnectLoop(listedWindows,
                               [savedStates |-> windowsSavedStates,
                                disconnectedWindows |-> {}],
                               outputName, monitorRect, time, host)
        inside == {w \in listedWindows : isInside(host[w], monitorRect)}
        asked == {w \in inside : settings.rememberState /\ allowsMove(host[w])}
        got == {w \in asked : ~save(host[w]).threw}
    IN  /\ time >= clock
        /\ clock' = time
        /\ windowsSavedStates' = done.savedStates
        /\ monitorDisconnectedWindows' =
               MapSet(monitorDisconnectedWindows, outputName, done.disconnectedWindows)
        /\ lastEvent' = Event("output-disconnected", outputName, monitorRect)
        /\ calls' = [NoCalls EXCEPT !.isInside = inside, !.allowsMove = asked,
                                    !.save = asked, !.saveThrew = asked \ got]
        /\ phase' = [phase EXCEPT ![outputName] = "disconnected"]
        /\ firstCapture' =
               [w \in Windows |->
                   IF w \in got /\ ~Has(firstCapture[w], outputName)
                   THEN MapSet(firstCapture[w], outputName,
                               [windowState |-> ToRelative(host[w].state, monitorRect),
                                time |-> time])
                   ELSE firstCapture[w]]
        /\ captureInfo' = CaptureInfoAfter(done.savedStates, host, monitorRect)
        /\ UNCHANGED <<settings, listedWindows>>

\* ------------------------------------------------------ _onOutputConnected
\* the stranded set kept on connect
OutputConnectedKeep(outputName, monitorRect) ==
    /\ lastEvent' = Event("output-connected", outputName, NoRect)
    /\ calls' = NoCalls
    /\ phase' = [phase EXCEPT ![outputName] =
                    IF phase[outputName] \in {"disconnected", "reconnected"}
                    THEN "reconnected" ELSE "idle"]
    /\ UNCHANGED <<windowsSavedStates, monitorDisconnectedWindows, settings,
                   listedWindows, clock, firstCapture, captureInfo>>

\* clear() called instead of delete(outputName)
OutputConnectedClear(outputName, monitorRect) ==
    /\ monitorDisconnectedWindows' = EmptyMap
    /\ lastEvent' = Event("output-connected", outputName, NoRect)
    /\ calls' = NoCalls
    /\ phase' = [phase EXCEPT ![outputName] =
                    IF phase[outputName] \in {"disconnected", "reconnected"}
                    THEN "reconnected" ELSE "idle"]
    /\ UNCHANGED <<windowsSavedStates, settings, listedWindows, clock, firstCapture,
                   captureInfo>>

OutputConnected(outputName, monitorRect) ==
    /\ monitorDisconnectedWindows' = MapDelete(monitorDisconnectedWindows, outputName)
    /\ lastEvent' = Event("output-connected", outputName, NoRect)
    /\ calls' = NoCalls
    /\ phase' = [phase EXCEPT ![outputName] =
                    IF phase[outputName] \in {"disconnected", "reconnected"}
                    THEN "reconnected" ELSE "idle"]
    /\ UNCHANGED <<windowsSavedStates, settings, listedWindows, clock,
                   firstCapture, captureInfo>>

\* ------------------------------------------------------ _onMonitorUnloaded
\* the stranded set kept on unload
MonitorUnloadedKeep(outputName, monitorRect, canMinimize) ==
    /\ calls' = [NoCalls EXCEPT !.minimize =
                    IF Has(monitorDisconnectedWindows, outputName)
                    THEN {w \in monitorDisconnectedWindows[outputName] :
                             settings.minimize /\ w \in canMinimize}
                    ELSE {}]
    /\ lastEvent' = Event("monitor-unloaded", outputName, NoRect)
    /\ phase' = [phase EXCEPT ![outputName] =
                    IF phase[outputName] = "reconnected"
                    THEN "unloaded-after-reconnect" ELSE "idle"]
    /\ UNCHANGED <<windowsSavedStates, monitorDisconnectedWindows, settings,
                   listedWindows, clock, firstCapture, captureInfo>>

\* _onMonitorUnloaded minimizing every stranded window without asking
\* can_minimize().
MonitorUnloadedMinimizeAll(outputName, monitorRect, canMinimize) ==
    /\ lastEvent' = Event("monitor-unloaded", outputName, NoRect)
    /\ IF Has(monitorDisconnectedWindows, outputName)
       THEN LET disconnectedWindows == monitorDisconnectedWindows[outputName]
            IN  /\ monitorDisconnectedWindows' =
                       MapDelete(monitorDisconnectedWindows, outputName)
                /\ calls' = [NoCalls EXCEPT
                               !.canMinimize =
                                   {<<w, w \in canMinimize>> :
                                       w \in {v \in disconnectedWindows : settings.minimize}},
                               !.minimize =
                                   {w \in disconnectedWindows : settings.minimize}]
       ELSE /\ monitorDisconnectedWindows' = monitorDisconnectedWindows
            /\ calls' = NoCalls
    /\ phase' = [phase EXCEPT ![outputName] =
                    IF @ = "reconnected" THEN "unloaded-after-reconnect" ELSE "idle"]
    /\ UNCHANGED <<windowsSavedStates, settings, listedWindows, clock, firstCapture,
                   captureInfo>>

\* canMinimize: the windows whose can_minimize() answers true
MonitorUnloaded(outputName, monitorRect, canMinimize) ==
    /\ IF Has(monitorDisconnectedWindows, outputName)
       THEN LET disconnectedWindows == monitorDisconnectedWindows[outputName]
            IN  /\ monitorDisconnectedWindows' =
                       MapDelete(monitorDisconnectedWindows, outputName)
                /\ calls' = [NoCalls EXCEPT
                               !.canMinimize =
                                   {<<w, w \in canMinimize>> :
                                       w \in {v \in disconnectedWindows : settings.minimize}},
                               !.minimize =
                                   {w \in disconnectedWindows :
                                       settings.minimize /\ w \in canMinimize}]
       ELSE /\ monitorDisconnectedWindows' = monitorDisconnectedWindows
            /\ calls' = NoCalls
    /\ lastEvent' = Event("monitor-unloaded", outputName, NoRect)
    /\ phase' = [phase EXCEPT ![outputName] =
                    IF phase[outputName] = "reconnected"
                    THEN "unloaded-after-reconnect" ELSE "idle"]
    /\ UNCHANGED <<windowsSavedStates, settings, listedWindows, clock,
                   firstCapture, captureInfo>>

\* -------------------------------------------------------- _onMonitorLoaded
\* Forget all younger states: the loop deletes while it iterates, and a Map
\* iterator visits every entry that is still there, so every entry whose time is
\* not below the restored one goes.
\* the comparison > in place of >=
ForgetYoungerStrict(savedStates, time) ==
    [k \in {o \in DOMAIN savedStates : ~(savedStates[o].time > time)} |-> savedStates[k]]

\* the comparison <= in place of >=: the older states forgotten
ForgetYoungerReversed(savedStates, time) ==
    [k \in {o \in DOMAIN savedStates : ~(savedStates[o].time <= time)} |-> savedStates[k]]

ForgetYounger(savedStates, time) ==
    [k \in {o \in DOMAIN savedStates : ~(savedStates[o].time >= time)} |-> savedStates[k]]

\* Transform x and y to absolute positions
\* monitorRect.x added to y
ToAbsoluteTypo(windowState, monitorRect) ==
    [x |-> windowState.x + monitorRect.x, y |-> windowState.y + monitorRect.x]

ToAbsolute(windowState, monitorRect) ==
    [x |-> windowState.x + monitorRect.x, y |-> windowState.y + monitorRect.y]

\* the window's map after one iteration of the loop over the saved states
\* every other state forgotten, the older ones too
LoadWindowClear(savedStates, outputName) ==
    IF Has(savedStates, outputName) THEN EmptyMap ELSE savedStates

\* the restored state left in the map
LoadWindowKeep(savedStates, outputName) ==
    IF Has(savedStates, outputName)
    THEN [k \in {o \in DOMAIN savedStates :
                    o = outputName \/ savedStates[o].time < savedStates[outputName].time}
             |-> savedStates[k]]
    ELSE savedStates

LoadWindow(savedStates, outputName) ==
    IF Has(savedStates, outputName)
    THEN ForgetYounger(MapDelete(savedStates, outputName), savedStates[outputName].time)
    ELSE savedStates

\* the restore call of one iteration, when it makes one (from: the capture the
\* restored entry was made of)
RestoreCalls(saved, outputName, monitorRect, failing) ==
    {[metaWindow |-> w,
      outputName |-> outputName,
      windowState |-> ToAbsolute(saved[w][outputName].windowState, monitorRect),
      monitorRect |-> monitorRect,
      threw |-> w \in failing,
      from |-> captureInfo[w][outputName]] : w \in {v \in DOMAIN saved : Has(saved[v], outputName)}}

NoHost == [w \in Windows |-> [state |-> NoState]]

\* the stranded set of the loaded output deleted too
MonitorLoadedUnstrand(outputName, monitorRect, failing) ==
    LET after == [w \in DOMAIN windowsSavedStates |->
                     LoadWindow(windowsSavedStates[w], outputName)]
    IN  /\ failing \subseteq {w \in DOMAIN windowsSavedStates :
                                 Has(windowsSavedStates[w], outputName)}
        /\ windowsSavedStates' = after
        /\ monitorDisconnectedWindows' = MapDelete(monitorDisconnectedWindows, outputName)
        /\ calls' = [NoCalls EXCEPT
                        !.restore = RestoreCalls(windowsSavedStates, outputName,
                                                 monitorRect, failing),
                        !.forget = {<<w, o>> \in Windows \X Outputs :
                                       /\ Has(windowsSavedStates, w)
                                       /\ Has(windowsSavedStates[w], o)
                                       /\ o # outputName
                                       /\ ~Has(after[w], o)}]
        /\ lastEvent' = Event("monitor-loaded", outputName, monitorRect)
        /\ firstCapture' = [w \in Windows |-> MapDelete(firstCapture[w], outputName)]
        /\ captureInfo' = CaptureInfoAfter(after, NoHost, monitorRect)
        /\ UNCHANGED <<settings, listedWindows, clock, phase>>

\* failing: the windows whose windowSaver.restore throws (callSafely catches it)
MonitorLoaded(outputName, monitorRect, failing) ==
    LET after == [w \in DOMAIN windowsSavedStates |->
                     LoadWindow(windowsSavedStates[w], outputName)]
    IN  /\ failing \subseteq {w \in DOMAIN windowsSavedStates :
                                 Has(windowsSavedStates[w], outputName)}
        /\ windowsSavedStates' = after
        /\ calls' = [NoCalls EXCEPT
                        !.restore = RestoreCalls(windowsSavedStates, outputName,
                                                 monitorRect, failing),
                        !.forget = {<<w, o>> \in Windows \X Outputs :
                                       /\ Has(windowsSavedStates, w)
                                       /\ Has(windowsSavedStates[w], o)
                                       /\ o # outputName
                                       /\ ~Has(after[w], o)}]
        /\ lastEvent' = Event("monitor-loaded", outputName, monitorRect)
        /\ firstCapture' = [w \in Windows |-> MapDelete(firstCapture[w], outputName)]
        /\ captureInfo' = CaptureInfoAfter(after, NoHost, monitorRect)
        /\ UNCHANGED <<monitorDisconnectedWindows, settings, listedWindows, clock, phase>>

\* -------------------------------------------------------- _onWindowRemoved
\* the stranded sets left as they are
WindowRemovedSavedOnly(metaWindow) ==
    /\ metaWindow \in listedWindows
    /\ listedWindows' = listedWindows \ {metaWindow}
    /\ windowsSavedStates' = MapDelete(windowsSavedStates, metaWindow)
    /\ lastEvent' = [NoEvent EXCEPT !.type = "window-removed", !.metaWindow = metaWindow]
    /\ calls' = NoCalls
    /\ firstCapture' = [firstCapture EXCEPT ![metaWindow] = EmptyMap]
    /\ captureInfo' = CaptureInfoAfter(MapDelete(windowsSavedStates, metaWindow),
                                       NoHost, NoRect)
    /\ UNCHANGED <<monitorDisconnectedWindows, settings, clock, phase>>

\* the saved states of the removed window left as they are
WindowRemovedStrandedOnly(metaWindow) ==
    /\ metaWindow \in listedWindows
    /\ listedWindows' = listedWindows \ {metaWindow}
    /\ monitorDisconnectedWindows' =
           [o \in DOMAIN monitorDisconnectedWindows |->
               monitorDisconnectedWindows[o] \ {metaWindow}]
    /\ lastEvent' = [NoEvent EXCEPT !.type = "window-removed", !.metaWindow = metaWindow]
    /\ calls' = [NoCalls EXCEPT
                    !.unstrand = {o \in DOMAIN monitorDisconnectedWindows :
                                     metaWindow \in monitorDisconnectedWindows[o]}]
    /\ UNCHANGED <<windowsSavedStates, settings, clock, phase, firstCapture, captureInfo>>

WindowRemoved(metaWindow) ==
    LET after == MapDelete(windowsSavedStates, metaWindow)
    IN  /\ metaWindow \in listedWindows
        /\ listedWindows' = listedWindows \ {metaWindow}
        /\ windowsSavedStates' = after
        /\ monitorDisconnectedWindows' =
               [o \in DOMAIN monitorDisconnectedWindows |->
                   monitorDisconnectedWindows[o] \ {metaWindow}]
        /\ lastEvent' = [NoEvent EXCEPT !.type = "window-removed", !.metaWindow = metaWindow]
        /\ calls' = [NoCalls EXCEPT
                        !.forget = IF Has(windowsSavedStates, metaWindow)
                                   THEN {<<metaWindow, o>> :
                                            o \in DOMAIN windowsSavedStates[metaWindow]}
                                   ELSE {},
                        !.unstrand = {o \in DOMAIN monitorDisconnectedWindows :
                                         metaWindow \in monitorDisconnectedWindows[o]}]
        /\ firstCapture' = [firstCapture EXCEPT ![metaWindow] = EmptyMap]
        /\ captureInfo' = CaptureInfoAfter(after, NoHost, NoRect)
        /\ UNCHANGED <<settings, clock, phase>>

\* _onRememberStateChange calling clear() on both maps.
RememberStateChangeClearAll ==
    LET value == ~settings.rememberState
        after == IF ~value THEN EmptyMap ELSE windowsSavedStates
    IN  /\ settings' = [settings EXCEPT !.rememberState = value]
        /\ windowsSavedStates' = after
        /\ monitorDisconnectedWindows' =
               IF ~value THEN EmptyMap ELSE monitorDisconnectedWindows
        /\ lastEvent' = [NoEvent EXCEPT !.type = "rememberState-changed"]
        /\ calls' = [NoCalls EXCEPT
                        !.forget = {<<w, o>> \in Windows \X Outputs :
                                       /\ Has(windowsSavedStates, w)
                                       /\ Has(windowsSavedStates[w], o)
                                       /\ ~Has(after, w)}]
        /\ firstCapture' = IF ~value THEN [w \in Windows |-> EmptyMap] ELSE firstCapture
        /\ captureInfo' = CaptureInfoAfter(after, NoHost, NoRect)
        /\ UNCHANGED <<listedWindows, clock, phase>>

\* _onRememberStateChange without the clear()
RememberStateChangeKeep ==
    /\ settings' = [settings EXCEPT !.rememberState = ~settings.rememberState]
    /\ lastEvent' = [NoEvent EXCEPT !.type = "rememberState-changed"]
    /\ calls' = NoCalls
    /\ UNCHANGED <<windowsSavedStates, monitorDisconnectedWindows, listedWindows, clock,
                   phase, firstCapture, captureInfo>>

\* -------------------------------------------------- _onRememberStateChange
\* the settings binding stores the new value, then calls the handler
RememberStateChange ==
    LET value == ~settings.rememberState
        after == IF ~value THEN EmptyMap ELSE windowsSavedStates
    IN  /\ settings' = [settings EXCEPT !.rememberState = value]
        /\ windowsSavedStates' = after
        /\ lastEvent' = [NoEvent EXCEPT !.type = "rememberState-changed"]
        /\ calls' = [NoCalls EXCEPT
                        !.forget = {<<w, o>> \in Windows \X Outputs :
                                       /\ Has(windowsSavedStates, w)
                                       /\ Has(windowsSavedStates[w], o)
                                       /\ ~Has(after, w)}]
        /\ firstCapture' = IF ~value THEN [w \in Windows |-> EmptyMap] ELSE firstCapture
        /\ captureInfo' = CaptureInfoAfter(after, NoHost, NoRect)
        /\ UNCHANGED <<monitorDisconnectedWindows, listedWindows, clock, phase>>

\* ------------------------------------------------------- _onMinimizeChange
MinimizeChange ==
    /\ settings' = [settings EXCEPT !.minimize = ~settings.minimize]
    /\ lastEvent' = [NoEvent EXCEPT !.type = "minimize-changed"]
    /\ calls' = NoCalls
    /\ UNCHANGED <<windowsSavedStates, monitorDisconnectedWindows, listedWindows, clock,
                   phase, firstCapture, captureInfo>>

\* -------------------------------------------------------------------- Next
Events(outputs, rects, states, maxTime) ==
    \/ \E outputName \in outputs, monitorRect \in rects, time \in clock .. maxTime,
          host \in [listedWindows -> HostAnswers(states)] :
            OutputDisconnected(outputName, monitorRect, time, host)
    \/ \E outputName \in outputs, monitorRect \in rects :
            OutputConnected(outputName, monitorRect)
    \/ \E outputName \in outputs, monitorRect \in rects, canMinimize \in SUBSET Windows :
            \* can_minimize is only asked of stranded windows while minimize is set
            /\ canMinimize \subseteq
                   IF settings.minimize /\ Has(monitorDisconnectedWindows, outputName)
                   THEN monitorDisconnectedWindows[outputName] ELSE {}
            /\ MonitorUnloaded(outputName, monitorRect, canMinimize)
    \/ \E outputName \in outputs, monitorRect \in rects, failing \in SUBSET Windows :
            MonitorLoaded(outputName, monitorRect, failing)
    \/ \E metaWindow \in Windows : WindowRemoved(metaWindow)

\* the notifications of the settings
SettingsChanged ==
    \/ RememberStateChange
    \/ MinimizeChange

\* one window, two outputs
Init == InitWith({"w1"})
Next == Events(Outputs, Rects, WindowStates, MaxTime) \/ SettingsChanged
Spec == Init /\ [][Next]_vars

\* two windows, one output
InitWindows == InitWith(Windows)
NextWindows == Events({"HDMI-1"}, Rects, WindowStates, MaxTime) \/ SettingsChanged
SpecWindows == InitWindows /\ [][NextWindows]_vars

\* two windows, two outputs, under the settings enable() starts with and with all
\* disconnects within one tick of the clock
InitFull == InitWindows /\ settings = [rememberState |-> TRUE, minimize |-> TRUE]
NextFull == Events(Outputs, Rects, WindowStates, 0)
SpecFull == InitFull /\ [][NextFull]_vars

\* one window, one output, the rects and window positions of the coordinate
\* transformation, all disconnects within one tick of the clock
NextCoord == Events({"HDMI-1"}, CoordRects, CoordWindowStates, 0) \/ SettingsChanged
SpecCoord == Init /\ [][NextCoord]_vars

\* ================================================================== claims
Pending(saved, w, o) == Has(saved, w) /\ Has(saved[w], o)

RestoresOf(w) == {c \in calls.restore : c.metaWindow = w}

\* C1: when a window has pending states under A and B and B's is not older than
\* A's, loading A removes both, restores the window once, towards A, and no restore
\* towards an output is ever issued for a window without a pending state of that
\* output (so none towards B until B is disconnected again).
C1_ConflictResolution ==
    [][/\ lastEvent'.type = "monitor-loaded" =>
            \A w \in Windows, B \in Outputs :
                LET A == lastEvent'.outputName
                IN  (/\ Pending(windowsSavedStates, w, A)
                     /\ Pending(windowsSavedStates, w, B)
                     /\ windowsSavedStates[w][B].time >= windowsSavedStates[w][A].time)
                    => /\ ~Pending(windowsSavedStates', w, A)
                       /\ ~Pending(windowsSavedStates', w, B)
                       /\ Cardinality({c \in calls'.restore : c.metaWindow = w}) = 1
                       /\ \A c \in calls'.restore :
                              c.metaWindow = w => c.outputName = A
       /\ \A c \in calls'.restore :
              /\ lastEvent'.type = "monitor-loaded"
              /\ c.outputName = lastEvent'.outputName
              /\ Pending(windowsSavedStates, c.metaWindow, c.outputName)
      ]_vars

\* a load that restored a window and forgot a state of another output with it
C1_Witness ==
    /\ lastEvent.type = "monitor-loaded"
    /\ \E w \in Windows, B \in Outputs :
          /\ B # lastEvent.outputName
          /\ <<w, B>> \in calls.forget
          /\ RestoresOf(w) # {}
          /\ ~Pending(windowsSavedStates, w, B)

\* C2 as stated: after a disconnect of O, a window captured by an earlier
\* disconnect of O, with no load of O, removal of the window or disabling of
\* rememberState since, has the state and the time of that first capture in its
\* entry under O.
C2_FirstCaptureKeptAsStated ==
    lastEvent.type = "output-disconnected" =>
        \A w \in Windows :
            (/\ Has(firstCapture[w], lastEvent.outputName)
             /\ Pending(windowsSavedStates, w, lastEvent.outputName))
            => windowsSavedStates[w][lastEvent.outputName]
                   = firstCapture[w][lastEvent.outputName]

\* C2 amended: an entry changes in no step; it is removed only by a load of its
\* output, a load of another output whose entry for the window is not younger,
\* the removal of the window or the disabling of rememberState; so a disconnect
\* of O that finds the entry pending keeps its state and its time.
C2_FirstCaptureWins ==
    [][\A w \in Windows, O \in Outputs :
          Pending(windowsSavedStates, w, O) =>
             \/ /\ Pending(windowsSavedStates', w, O)
                /\ windowsSavedStates'[w][O] = windowsSavedStates[w][O]
             \/ /\ ~Pending(windowsSavedStates', w, O)
                /\ \/ /\ lastEvent'.type = "monitor-loaded"
                      /\ lastEvent'.outputName = O
                   \/ /\ lastEvent'.type = "monitor-loaded"
                      /\ Pending(windowsSavedStates, w, lastEvent'.outputName)
                      /\ windowsSavedStates[w][lastEvent'.outputName].time
                             <= windowsSavedStates[w][O].time
                   \/ /\ lastEvent'.type = "window-removed"
                      /\ lastEvent'.metaWindow = w
                   \/ /\ lastEvent'.type = "rememberState-changed"
                      /\ ~settings'.rememberState
      ]_vars

\* a disconnect whose save succeeded for a window that keeps its older entry
C2_Witness ==
    /\ lastEvent.type = "output-disconnected"
    /\ \E w \in calls.save \ calls.saveThrew :
          /\ Pending(windowsSavedStates, w, lastEvent.outputName)
          /\ windowsSavedStates[w][lastEvent.outputName].time < clock

\* C3: the restore call of a load gets the rect of the load and the position the
\* window was captured at, moved from the origin of the rect of the disconnect to
\* the origin of the rect of the load; with the same rect it gets the captured
\* position itself.
C3_CoordinateRoundTrip ==
    \A c \in calls.restore :
        /\ c.monitorRect = lastEvent.monitorRect
        /\ c.windowState.x = c.from.state.x - c.from.monitorRect.x + c.monitorRect.x
        /\ c.windowState.y = c.from.state.y - c.from.monitorRect.y + c.monitorRect.y
        /\ c.from.monitorRect = c.monitorRect => c.windowState = c.from.state

\* a restore to a rect of another origin, of a position off the old origin
C3_Witness ==
    /\ lastEvent.type = "monitor-loaded"
    /\ \E c \in calls.restore :
          /\ c.from.monitorRect.x # c.monitorRect.x
          /\ c.from.monitorRect.y # c.monitorRect.y
          /\ c.from.state.x # c.from.monitorRect.x
          /\ c.from.state.y # c.from.monitorRect.y
          /\ c.from.monitorRect.x # c.from.monitorRect.y

\* C4 as stated: every window that is a key of windowsSavedStates has a pending
\* entry.
C4_NoEmptySavedStates ==
    \A w \in DOMAIN windowsSavedStates : DOMAIN windowsSavedStates[w] # {}

\* C4 amended: a window comes to be a key without a pending entry only by a load
\* that removes its entries; no other event leaves a key without entries that was
\* not one before.
C4_EmptyOnlyAfterLoad ==
    [][\A w \in DOMAIN windowsSavedStates' :
          DOMAIN windowsSavedStates'[w] = {} =>
             \/ Has(windowsSavedStates, w) /\ DOMAIN windowsSavedStates[w] = {}
             \/ /\ lastEvent'.type = "monitor-loaded"
                /\ Pending(windowsSavedStates, w, lastEvent'.outputName)
      ]_vars

\* a window left as a key without entries by the load that restored it
C4_Witness ==
    /\ lastEvent.type = "monitor-loaded"
    /\ \E w \in DOMAIN windowsSavedStates :
          /\ DOMAIN windowsSavedStates[w] = {}
          /\ RestoresOf(w) # {}

\* C5: the unload that follows disconnect(O), connect(O) minimizes no window.
C5_NoMinimizeAfterReconnect ==
    (/\ lastEvent.type = "monitor-unloaded"
     /\ phase[lastEvent.outputName] = "unloaded-after-reconnect")
    => calls.minimize = {}

\* an unload after disconnect and connect, with minimize set
C5_Witness ==
    /\ lastEvent.type = "monitor-unloaded"
    /\ phase[lastEvent.outputName] = "unloaded-after-reconnect"
    /\ settings.minimize
    /\ listedWindows # {}

\* C6: window-removed leaves the window in neither map and every other window
\* where it was.
C6_CleanupOnRemoval ==
    [][lastEvent'.type = "window-removed" =>
          LET W == lastEvent'.metaWindow
          IN  /\ ~Has(windowsSavedStates', W)
              /\ DOMAIN monitorDisconnectedWindows' = DOMAIN monitorDisconnectedWindows
              /\ \A o \in DOMAIN monitorDisconnectedWindows' :
                    /\ W \notin monitorDisconnectedWindows'[o]
                    /\ \A w \in Windows \ {W} :
                          w \in monitorDisconnectedWindows'[o]
                              <=> w \in monitorDisconnectedWindows[o]
              /\ \A w \in Windows \ {W} :
                    /\ Has(windowsSavedStates', w) <=> Has(windowsSavedStates, w)
                    /\ Has(windowsSavedStates, w) =>
                           windowsSavedStates'[w] = windowsSavedStates[w]
      ]_vars

\* the removal of a window that had two pending states and was stranded under two
\* outputs, next to a window that has both as well
C6_Witness ==
    /\ lastEvent.type = "window-removed"
    /\ Cardinality(calls.forget) = 2
    /\ Cardinality(calls.unstrand) = 2
    /\ \E w \in Windows \ {lastEvent.metaWindow} :
          /\ Has(windowsSavedStates, w)
          /\ DOMAIN windowsSavedStates[w] = Outputs
          /\ \A o \in Outputs :
                Has(monitorDisconnectedWindows, o) /\ w \in monitorDisconnectedWindows[o]

EntriesOf(saved, w) == IF Has(saved, w) THEN saved[w] ELSE EmptyMap

\* C7 as stated: a window whose save or restore failed has the same saved-state
\* entries after the event as before it.
C7_FailureLeavesEntriesAsStated ==
    [][\A w \in Windows :
          (\/ w \in calls'.saveThrew
           \/ \E c \in calls'.restore : c.metaWindow = w /\ c.threw)
          => EntriesOf(windowsSavedStates', w) = EntriesOf(windowsSavedStates, w)
      ]_vars

\* C7 amended: a failed save leaves the entries of the window as they were; a
\* failed restore leaves them as a restore that succeeds does: without the entry of
\* the loaded output and without the entries that are not older, the older ones
\* unchanged.
C7_FailureHandling ==
    [][\A w \in Windows :
          /\ w \in calls'.saveThrew =>
                EntriesOf(windowsSavedStates', w) = EntriesOf(windowsSavedStates, w)
          /\ \A c \in calls'.restore :
                (c.metaWindow = w /\ c.threw) =>
                    /\ Has(windowsSavedStates', w)
                    /\ windowsSavedStates'[w] =
                           [k \in {o \in DOMAIN windowsSavedStates[w] :
                                      windowsSavedStates[w][o].time
                                          < windowsSavedStates[w][c.outputName].time}
                               |-> windowsSavedStates[w][k]]
      ]_vars

\* a restore that threw for a window that keeps an older state of another output
C7_Witness ==
    /\ lastEvent.type = "monitor-loaded"
    /\ \E c \in calls.restore :
          /\ c.threw
          /\ ~Pending(windowsSavedStates, c.metaWindow, c.outputName)
          /\ EntriesOf(windowsSavedStates, c.metaWindow) # EmptyMap

\* C8: a save or restore that fails for one window leaves the other windows of
\* the event their treatment: each window inside the rect is stranded, each window
\* whose save succeeded has a pending state of the output (the one of this event
\* when it had none), each window with a pending state of the loaded output gets
\* its restore call.
C8_FailureIsolation ==
    [][/\ lastEvent'.type = "output-disconnected" =>
            \A w \in listedWindows :
                LET O == lastEvent'.outputName
                IN  /\ w \in calls'.isInside =>
                          /\ Has(monitorDisconnectedWindows', O)
                          /\ w \in monitorDisconnectedWindows'[O]
                    /\ w \in calls'.save \ calls'.saveThrew =>
                          /\ Pending(windowsSavedStates', w, O)
                          /\ ~Pending(windowsSavedStates, w, O) =>
                                 windowsSavedStates'[w][O].time = clock'
       /\ lastEvent'.type = "monitor-loaded" =>
            \A w \in Windows :
                Pending(windowsSavedStates, w, lastEvent'.outputName) =>
                    \E c \in calls'.restore :
                        c.metaWindow = w /\ c.outputName = lastEvent'.outputName
      ]_vars

\* a disconnect in which save threw for one window and another window was saved
C8_Witness ==
    /\ lastEvent.type = "output-disconnected"
    /\ calls.saveThrew # {}
    /\ \E w \in calls.save \ calls.saveThrew :
          /\ Pending(windowsSavedStates, w, lastEvent.outputName)
          /\ windowsSavedStates[w][lastEvent.outputName].time = clock
          /\ w \in monitorDisconnectedWindows[lastEvent.outputName]

\* C9: after a disconnect the stranded set of the output is the set of the listed
\* windows isInside answered true for, whatever rememberState, allowsMove and save
\* did, and nothing of an older set.
C9_StrandedIsInside ==
    lastEvent.type = "output-disconnected" =>
        /\ Has(monitorDisconnectedWindows, lastEvent.outputName)
        /\ monitorDisconnectedWindows[lastEvent.outputName] = calls.isInside
        /\ calls.isInside \subseteq listedWindows

\* a disconnect that stranded a window whose save threw and one that was not asked
C9_Witness ==
    /\ lastEvent.type = "output-disconnected"
    /\ calls.saveThrew # {}
    /\ calls.isInside \ calls.save # {}
    /\ monitorDisconnectedWindows[lastEvent.outputName] = calls.isInside

\* C10: an output has a stranded set only from its disconnect to its next connect
\* or unload, and a window is in the set only if it was inside the rect at that
\* disconnect.
C10_StrandedLifetime ==
    [][\A o \in Outputs :
          /\ Has(monitorDisconnectedWindows', o) <=> phase'[o] = "disconnected"
          /\ Has(monitorDisconnectedWindows', o) =>
                \A w \in monitorDisconnectedWindows'[o] :
                    IF lastEvent'.type = "output-disconnected" /\ lastEvent'.outputName = o
                    THEN w \in calls'.isInside
                    ELSE Has(monitorDisconnectedWindows, o)
                             /\ w \in monitorDisconnectedWindows[o]
      ]_vars

\* a window stranded under a disconnected output next to an output that has been
\* connected again and has no set
C10_Witness ==
    \E o, p \in Outputs :
        /\ phase[o] = "disconnected"
        /\ monitorDisconnectedWindows[o] # {}
        /\ phase[p] = "reconnected"
        /\ ~Has(monitorDisconnectedWindows, p)

\* C11: handling a change of rememberState to false leaves windowsSavedStates
\* empty and monitorDisconnectedWindows as it was; handling a change to true
\* changes neither map.
C11_RememberStateChangeFrame ==
    [][lastEvent'.type = "rememberState-changed" =>
          /\ monitorDisconnectedWindows' = monitorDisconnectedWindows
          /\ ~settings'.rememberState => windowsSavedStates' = EmptyMap
          /\ settings'.rememberState => windowsSavedStates' = windowsSavedStates]_vars

\* rememberState has just been turned off while an entry was pending and a
\* window was stranded: the entry is gone, the stranded set is still there.
C11_Witness ==
    /\ lastEvent.type = "rememberState-changed"
    /\ ~settings.rememberState
    /\ calls.forget # {}
    /\ windowsSavedStates = EmptyMap
    /\ \E o \in Outputs :
           Has(monitorDisconnectedWindows, o) /\ monitorDisconnectedWindows[o] # {}

\* C12: onMonitorUnloaded(O) with a stranded set S for O removes O's entry (the
\* other entries and windowsSavedStates stay) and minimizes exactly the windows of
\* S for which can_minimize() answers true when the minimize setting is on, and
\* none when it is off; with no set for O it minimizes nothing and changes no map.
C12_UnloadMinimizes ==
    [][lastEvent'.type = "monitor-unloaded" =>
          LET O == lastEvent'.outputName
          IN  /\ windowsSavedStates' = windowsSavedStates
              /\ \A p \in Outputs \ {O} :
                     /\ Has(monitorDisconnectedWindows', p) = Has(monitorDisconnectedWindows, p)
                     /\ Has(monitorDisconnectedWindows, p) =>
                            monitorDisconnectedWindows'[p] = monitorDisconnectedWindows[p]
              /\ ~Has(monitorDisconnectedWindows', O)
              /\ IF Has(monitorDisconnectedWindows, O)
                 THEN calls'.minimize =
                          {w \in monitorDisconnectedWindows[O] :
                              settings.minimize /\ <<w, TRUE>> \in calls'.canMinimize}
                 ELSE calls'.minimize = {}
              /\ ~settings.minimize => calls'.minimize = {} /\ calls'.canMinimize = {}]_vars

\* an unload that asked two stranded windows and minimized only the one that
\* supports it
C12_Witness ==
    /\ lastEvent.type = "monitor-unloaded"
    /\ ~Has(monitorDisconnectedWindows, lastEvent.outputName)
    /\ \E w, v \in Windows :
           /\ w # v
           /\ {<<w, TRUE>>, <<v, FALSE>>} \subseteq calls.canMinimize
           /\ calls.minimize = {w}

\* C13: onOutputDisconnected records a saved state for a window only if
\* rememberState is on, the window is inside the rect, allowsMove answered true
\* and save returned a state; when rememberState is off or the window is not
\* movable, save is not called on it and its saved states stay as they were, and
\* a window inside the rect is in the stranded set all the same.
C13_CaptureGating ==
    [][lastEvent'.type = "output-disconnected" =>
          LET O == lastEvent'.outputName
              strandedAfter == monitorDisconnectedWindows'
          IN  \A w \in listedWindows :
                  /\ EntriesOf(windowsSavedStates', w) # EntriesOf(windowsSavedStates, w) =>
                         /\ settings.rememberState
                         /\ w \in calls'.isInside
                         /\ w \in calls'.allowsMove
                         /\ w \in calls'.save \ calls'.saveThrew
                  /\ ~settings.rememberState \/ w \notin calls'.allowsMove =>
                         /\ w \notin calls'.save
                         /\ EntriesOf(windowsSavedStates', w) = EntriesOf(windowsSavedStates, w)
                         /\ Has(windowsSavedStates', w) = Has(windowsSavedStates, w)
                         /\ w \in calls'.isInside => w \in strandedAfter[O]]_vars

\* a disconnect with rememberState on that captured one window and stranded
\* another, not movable, without a saved state
C13_Witness ==
    /\ lastEvent.type = "output-disconnected"
    /\ settings.rememberState
    /\ \E w, v \in Windows :
           /\ Pending(windowsSavedStates, w, lastEvent.outputName)
           /\ w \in calls.save \ calls.saveThrew
           /\ v \in calls.isInside \ calls.allowsMove
           /\ v \in monitorDisconnectedWindows[lastEvent.outputName]
           /\ ~Has(windowsSavedStates, v)

\* C14: onOutputConnected(O) with no stranded set for O leaves both maps as they
\* were, and a second onOutputConnected(O) yields the state the first one
\* yielded: the step leaves no set for O, every other set and windowsSavedStates
\* untouched, and deleting O's set again changes nothing.
C14_ConnectIdempotent ==
    [][lastEvent'.type = "output-connected" =>
          LET O == lastEvent'.outputName
              strandedAfter == monitorDisconnectedWindows'
          IN  /\ windowsSavedStates' = windowsSavedStates
              /\ ~Has(monitorDisconnectedWindows, O) => strandedAfter = monitorDisconnectedWindows
              /\ \A p \in Outputs \ {O} :
                     /\ Has(strandedAfter, p) = Has(monitorDisconnectedWindows, p)
                     /\ Has(monitorDisconnectedWindows, p) =>
                            strandedAfter[p] = monitorDisconnectedWindows[p]
              /\ ~Has(strandedAfter, O)
              /\ MapDelete(strandedAfter, O) = strandedAfter]_vars

\* a connect of an output that had no stranded set, while another output has
\* one and the window has a pending entry
C14_Witness ==
    /\ lastEvent.type = "output-connected"
    /\ phase[lastEvent.outputName] = "idle"
    /\ \E p \in Outputs \ {lastEvent.outputName}, w \in Windows :
           /\ Has(monitorDisconnectedWindows, p)
           /\ w \in monitorDisconnectedWindows[p]
           /\ Pending(windowsSavedStates, w, p)

\* C15: a pending entry of a window under an output is left as it is by
\* onOutputConnected and onMonitorUnloaded of any output and by
\* onOutputDisconnected of any output; onMonitorLoaded removes it exactly when it
\* loads the entry's output or an output whose entry for the window is not
\* younger; onWindowRemoved removes the entries of its window only; a settings
\* change removes entries only when it turns rememberState off. And
\* onMonitorLoaded never changes monitorDisconnectedWindows.
C15_SavedEntryPersistence ==
    [][LET type == lastEvent'.type
           O == lastEvent'.outputName
           savedAfter == windowsSavedStates'
           Kept(w, o) == Pending(savedAfter, w, o) /\ savedAfter[w][o] = windowsSavedStates[w][o]
       IN  /\ type \in {"output-connected", "monitor-unloaded", "minimize-changed"} =>
                  savedAfter = windowsSavedStates
           /\ type = "rememberState-changed" /\ settings'.rememberState =>
                  savedAfter = windowsSavedStates
           /\ type = "monitor-loaded" =>
                  monitorDisconnectedWindows' = monitorDisconnectedWindows
           /\ \A w \in Windows, o \in Outputs :
                  Pending(windowsSavedStates, w, o) =>
                      /\ type = "output-disconnected" => Kept(w, o)
                      /\ type = "window-removed" /\ lastEvent'.metaWindow # w => Kept(w, o)
                      /\ type = "monitor-loaded" =>
                             IF \/ o = O
                                \/ /\ Pending(windowsSavedStates, w, O)
                                   /\ windowsSavedStates[w][O].time
                                          <= windowsSavedStates[w][o].time
                             THEN ~Pending(savedAfter, w, o)
                             ELSE Kept(w, o)]_vars

\* an unload that minimized a window whose entries under the unloaded output and
\* under another output are still pending
C15_Witness ==
    /\ lastEvent.type = "monitor-unloaded"
    /\ \E w \in calls.minimize, p \in Outputs \ {lastEvent.outputName} :
           /\ Pending(windowsSavedStates, w, lastEvent.outputName)
           /\ Pending(windowsSavedStates, w, p)

\* C16: when onMonitorLoaded(A) restores a window, each entry of the window under
\* another output is kept as it is if its time is strictly below the time of A's
\* entry and removed otherwise; and onMonitorLoaded of an output restores every
\* window with a pending entry of that output, so a later load of the older
\* output still restores the window.
C16_OlderSavesSurvive ==
    [][lastEvent'.type = "monitor-loaded" =>
          LET A == lastEvent'.outputName
              savedAfter == windowsSavedStates'
              restored == {c.metaWindow : c \in calls'.restore}
          IN  /\ restored = {w \in Windows : Pending(windowsSavedStates, w, A)}
              /\ \A w \in restored, B \in Outputs \ {A} :
                     Pending(windowsSavedStates, w, B) =>
                         IF windowsSavedStates[w][B].time < windowsSavedStates[w][A].time
                         THEN /\ Pending(savedAfter, w, B)
                              /\ savedAfter[w][B] = windowsSavedStates[w][B]
                         ELSE ~Pending(savedAfter, w, B)]_vars

\* a load has just restored a window that still has the older entry of another
\* output pending
C16_Witness ==
    /\ lastEvent.type = "monitor-loaded"
    /\ \E w \in Windows, B \in Outputs \ {lastEvent.outputName} :
           /\ RestoresOf(w) # {}
           /\ Pending(windowsSavedStates, w, B)
           /\ windowsSavedStates[w][B].time < clock

\* C17: onOutputDisconnected(O) leaves the stranded set of every other output as
\* it was, so one window can be in the stranded sets of two outputs at once.
C17_OtherSetsUntouched ==
    [][lastEvent'.type = "output-disconnected" =>
          LET O == lastEvent'.outputName
              strandedAfter == monitorDisconnectedWindows'
          IN  \A p \in Outputs \ {O} :
                  /\ Has(strandedAfter, p) = Has(monitorDisconnectedWindows, p)
                  /\ Has(monitorDisconnectedWindows, p) =>
                         strandedAfter[p] = monitorDisconnectedWindows[p]]_vars

\* a disconnect has just stranded a window that is in the stranded set of
\* another output too
C17_Witness ==
    /\ lastEvent.type = "output-disconnected"
    /\ \E w \in calls.isInside, p \in Outputs \ {lastEvent.outputName} :
           /\ w \in monitorDisconnectedWindows[lastEvent.outputName]
           /\ Has(monitorDisconnectedWindows, p)
           /\ w \in monitorDisconnectedWindows[p]

\* C18: in every reachable state where rememberState is false, windowsSavedStates
\* is empty: the change to false clears it and no event adds a saved state while
\* the setting is false.
C18_EmptyWhileDisabled ==
    ~settings.rememberState => windowsSavedStates = EmptyMap

\* rememberState is off and a disconnect, later than the first events, has just
\* stranded a window without calling save, while the other output is
\* disconnected too
C18_Witness ==
    /\ ~settings.rememberState
    /\ lastEvent.type = "output-disconnected"
    /\ calls.isInside # {}
    /\ calls.save = {}
    /\ clock > 0
    /\ \E p \in Outputs \ {lastEvent.outputName} : phase[p] = "disconnected"

\* C19: each recorded saved state causes at most one restore call. A restore
\* call for a window towards an output is made only by a step that finds the
\* entry pending and removes it, one call per window and step; an entry becomes
\* pending only by a disconnect of its output whose save succeeded for the
\* window. So the restores towards an output never outnumber the recording
\* disconnects of that output, and a second load with no recording disconnect in
\* between restores nothing.
C19_RestoreConsumesEntry ==
    [][LET savedAfter == windowsSavedStates'
           restores == calls'.restore
       IN  /\ \A c \in restores :
                  /\ lastEvent'.type = "monitor-loaded"
                  /\ c.outputName = lastEvent'.outputName
                  /\ Pending(windowsSavedStates, c.metaWindow, c.outputName)
                  /\ ~Pending(savedAfter, c.metaWindow, c.outputName)
           /\ \A c, d \in restores : c.metaWindow = d.metaWindow => c = d
           /\ \A w \in Windows, o \in Outputs :
                  ~Pending(windowsSavedStates, w, o) /\ Pending(savedAfter, w, o) =>
                      /\ lastEvent'.type = "output-disconnected"
                      /\ lastEvent'.outputName = o
                      /\ w \in calls'.save \ calls'.saveThrew]_vars

\* a load that restores nothing for a window whose entries were all used up by
\* earlier loads, although the window is still stranded under the loaded output
C19_Witness ==
    /\ lastEvent.type = "monitor-loaded"
    /\ calls.restore = {}
    /\ \E w \in Windows :
           /\ Has(windowsSavedStates, w)
           /\ windowsSavedStates[w] = EmptyMap
           /\ Has(monitorDisconnectedWindows, lastEvent.outputName)
           /\ w \in monitorDisconnectedWindows[lastEvent.outputName]

\* C20: once onWindowRemoved has been handled for a window and the host no
\* longer lists it, no later event calls restore or minimize on it (nor asks
\* can_minimize or save of it): the calls of every event are on listed windows.
C20_NoCallsOnRemovedWindow ==
    /\ \A c \in calls.restore : c.metaWindow \in listedWindows
    /\ calls.minimize \subseteq listedWindows
    /\ \A a \in calls.canMinimize : a[1] \in listedWindows
    /\ calls.save \subseteq listedWindows

\* the window has been removed, both outputs are disconnected with their
\* stranded sets, and a load has just restored nothing
C20_Witness ==
    /\ "w1" \notin listedWindows
    /\ lastEvent.type = "monitor-loaded"
    /\ calls.restore = {}
    /\ \A o \in Outputs :
           /\ phase[o] = "disconnected"
           /\ Has(monitorDisconnectedWindows, o)

====
